---- MODULE Spec2Model ----
(***************************************************************************)
(* Model of spoteamfy: the credential-refresh authenticator                *)
(* (spoteamfy/src/spotify_auth.py) and the per-user batch pipeline of the  *)
(* command line entry point (spoteamfy/src/cli.py).                        *)
(*                                                                         *)
(* Spec is a run of main; AuthSpec, FetchSpec and FormatSpec are one call  *)
(* of authenticate_user, fetch_recently_played and format_tracks_for_teams *)
(* on any argument within the bounds.                                      *)
(*                                                                         *)
(* Python strings are modelled as sequences of symbols, so that           *)
(* str.startswith, truthiness ("" is false) and f-string concatenation    *)
(* are computed rather than assumed.  Python dicts are modelled as        *)
(* functions whose DOMAIN is the set of keys present.                      *)
(***************************************************************************)
EXTENDS Integers, Sequences, FiniteSets, TLC

(***************************************************************************)
(* Bounds of the model.                                                    *)
(***************************************************************************)
MaxTokenLen == 3
MaxUsers == 3
MaxUsersAnyWebhook == 1
MaxItems == 4
MaxImages == 3
MaxTracks == 3

(***************************************************************************)
(* Strings.                                                                *)
(***************************************************************************)
RECURSIVE SeqsUpTo(_, _)
SeqsUpTo(S, n) ==
    IF n = 0 THEN {<<>>}
    ELSE LET shorter == SeqsUpTo(S, n - 1)
         IN shorter \cup {Append(s, x) : s \in {t \in shorter : Len(t) = n - 1}, x \in S}

\* str.startswith(prefix)
StartsWith(s, prefix) ==
    /\ Len(s) >= Len(prefix)
    /\ SubSeq(s, 1, Len(prefix)) = prefix

\* `part in text` for strings
Contains(text, part) ==
    \E i \in 0..(Len(text) - Len(part)) : SubSeq(text, i + 1, i + Len(part)) = part

\* Python truthiness of a string
Truthy(s) == s # <<>>

\* dict.get(key, default)
DictGet(d, key, default) == IF key \in DOMAIN d THEN d[key] ELSE default

EmptyDict == [k \in {} |-> <<>>]

(***************************************************************************)
(* spotify_auth.py                                                         *)
(***************************************************************************)
\* The literal "SPOTIFY_REFRESH_TOKEN" of line 49, cut into two symbols so
\* that it has a proper prefix that is not the marker.
PlaceholderMarker == <<"SPOTIFY_REFRESH", "_TOKEN">>

TokenSymbols == {"SPOTIFY_REFRESH", "_TOKEN", "_1"}

MsgPlaceholder ==
    <<"Refresh token is a placeholder. ",
      "Use get_access_token.py script to get a real refresh token.">>
MsgMissingRefresh == <<"Missing or empty refresh_token in user credentials.">>
PrefixAuthFailed == <<"Authentication failed for user ">>
PrefixMissingField == <<"Missing required credential field for user ">>
PrefixUnexpected == <<"Unexpected authentication error for user ">>

\* str(KeyError(key)) is the repr of the key
KeyErrorText(key) == <<"'", key, "'">>

\* An exception in flight: its class and str(e).
Exc(type, text) == [type |-> type, text |-> text]

\* What the upstream token exchange (SpotifyOAuth.refresh_access_token) can do:
\* return a token_info dict, with or without "access_token", or raise.
AccessTokens == {<<"access_1">>, <<"access_2">>}

Upstreams ==
    {[raises |-> "none", token_info |-> [k \in {"access_token"} |-> t], text |-> <<>>]
        : t \in AccessTokens}
    \cup {[raises |-> "none", token_info |-> EmptyDict, text |-> <<>>],
          [raises |-> "SpotifyOauthError", token_info |-> EmptyDict,
           text |-> <<"OAuth error">>],
          [raises |-> "Exception", token_info |-> EmptyDict,
           text |-> <<"Connection reset">>]}

\* Outcome of a block of code: it returned (a session built on `token`) or raised
\* `exc`; `exchanges` counts the calls of refresh_access_token it made.
Returned(token, n) ==
    [raised |-> FALSE, exc |-> Exc("none", <<>>), token |-> token, exchanges |-> n]
Raised(exc, n) ==
    [raised |-> TRUE, exc |-> exc, token |-> <<>>, exchanges |-> n]

\* Keyword arguments of SpotifyOAuth(...) read from the dict, in evaluation order.
OAuthFields == <<"client_id", "client_secret", "redirect_uri">>

\* The first of the fields whose subscript raises KeyError, or "" when none does.
FirstMissing(d, fields) ==
    IF \A i \in 1..Len(fields) : fields[i] \in DOMAIN d THEN ""
    ELSE LET i == CHOOSE j \in 1..Len(fields) :
                      /\ fields[j] \notin DOMAIN d
                      /\ \A k \in 1..(j - 1) : fields[k] \in DOMAIN d
         IN fields[i]

\* line 47: "refresh_token" in user_credentials and user_credentials["refresh_token"]
\* (variant: the key test alone, an empty token passes)
HasRefreshTokenNoTruthiness(user_credentials) ==
    "refresh_token" \in DOMAIN user_credentials

HasRefreshToken(user_credentials) ==
    /\ "refresh_token" \in DOMAIN user_credentials
    /\ Truthy(user_credentials["refresh_token"])

\* line 49: user_credentials["refresh_token"].startswith("SPOTIFY_REFRESH_TOKEN")
\* (variant: == instead of startswith)
IsPlaceholderExactMatch(refresh_token) == refresh_token = PlaceholderMarker

IsPlaceholder(refresh_token) == StartsWith(refresh_token, PlaceholderMarker)

\* lines 55-59: the exchange, the subscript of its result, the session
\* (variant: the session is built on a fixed token, not on the one returned)
RefreshAndBuildFixedToken(upstream) ==
    IF upstream.raises # "none"
    THEN Raised(Exc(upstream.raises, upstream.text), 1)
    ELSE IF "access_token" \notin DOMAIN upstream.token_info
         THEN Raised(Exc("KeyError", KeyErrorText("access_token")), 1)
         ELSE Returned(<<"access_1">>, 1)

RefreshAndBuild(upstream) ==
    IF upstream.raises # "none"
    THEN Raised(Exc(upstream.raises, upstream.text), 1)
    ELSE IF "access_token" \notin DOMAIN upstream.token_info
         THEN Raised(Exc("KeyError", KeyErrorText("access_token")), 1)
         ELSE Returned(upstream.token_info["access_token"], 1)

\* lines 30-63: the body of the try statement
TryBody(user_credentials, upstream) ==
    LET missing == FirstMissing(user_credentials, OAuthFields)
    IN IF missing # ""
       THEN Raised(Exc("KeyError", KeyErrorText(missing)), 0)
       ELSE IF HasRefreshToken(user_credentials)
            THEN IF IsPlaceholder(user_credentials["refresh_token"])
                 THEN Raised(Exc("SpotifyAuthError", MsgPlaceholder), 0)
                 ELSE RefreshAndBuild(upstream)
            ELSE Raised(Exc("SpotifyAuthError", MsgMissingRefresh), 0)

\* lines 65-79: the except clauses, tried in order; SpotifyAuthError is neither
\* a SpotifyOauthError nor a KeyError, so the last clause takes it.
\* (variant: without the except KeyError clause)
HandlerPrefixKeyErrorAsUnexpected(exc) ==
    IF exc.type = "SpotifyOauthError" THEN PrefixAuthFailed
    ELSE PrefixUnexpected

\* (variant: without the except SpotifyOauthError clause)
HandlerPrefixOauthAsUnexpected(exc) ==
    IF exc.type = "KeyError" THEN PrefixMissingField
    ELSE PrefixUnexpected

HandlerPrefix(exc) ==
    IF exc.type = "SpotifyOauthError" THEN PrefixAuthFailed
    ELSE IF exc.type = "KeyError" THEN PrefixMissingField
    ELSE PrefixUnexpected

\* f"<prefix>{user_credentials.get('username', '')}: {e}"
\* (variant: the message without the username)
WrapMessageNoUsername(user_credentials, exc) ==
    HandlerPrefix(exc) \o <<": ">> \o exc.text

WrapMessage(user_credentials, exc) ==
    HandlerPrefix(exc) \o DictGet(user_credentials, "username", <<>>)
        \o <<": ">> \o exc.text

\* authenticate_user: returns a session or raises SpotifyAuthError.
authenticate_user(user_credentials, upstream) ==
    LET body == TryBody(user_credentials, upstream)
    IN IF body.raised
       THEN Raised(Exc("SpotifyAuthError", WrapMessage(user_credentials, body.exc)),
                   body.exchanges)
       ELSE body

(***************************************************************************)
(* cli.py                                                                  *)
(***************************************************************************)
\* An optional value (None or a string) is a sequence of at most one string.
None == <<>>
Some(s) == <<s>>

\* Python truthiness of an Optional[str]: None and "" are false.
TruthyOpt(o) == o # None /\ Truthy(o[1])

\* A call that returns `value` or raises `exc`.
Ret(value) == [raised |-> FALSE, exc |-> Exc("none", <<>>), value |-> value]
Throw(exc) == [raised |-> TRUE, exc |-> exc, value |-> <<>>]

MsgNoWebhook ==
    <<"No webhook URL provided. Use --teams-webhook or set WEBHOOK_URL in .env">>

\* get_webhook_url: CLI argument > WEBHOOK_URL > ValueError
\* (variant: WEBHOOK_URL is looked at first)
get_webhook_url_env_first(cli_webhook, env_webhook) ==
    IF TruthyOpt(env_webhook) THEN Ret(env_webhook[1])
    ELSE IF TruthyOpt(cli_webhook) THEN Ret(cli_webhook[1])
    ELSE Throw(Exc("ValueError", MsgNoWebhook))

get_webhook_url(cli_webhook, env_webhook) ==
    IF TruthyOpt(cli_webhook) THEN Ret(cli_webhook[1])
    ELSE IF TruthyOpt(env_webhook) THEN Ret(env_webhook[1])
    ELSE Throw(Exc("ValueError", MsgNoWebhook))

required_keys ==
    {"username", "client_id", "client_secret", "redirect_uri", "refresh_token"}

\* load_users_from_json: open + json.load raise on an unreadable or malformed
\* file; the first entry that lacks a required key raises ValueError.  Only the
\* presence of the keys is checked, not their values.
\* (variant: only the first entry is checked)
AllEntriesHaveKeysFirstOnly(entries) ==
    Len(entries) = 0 \/ required_keys \subseteq DOMAIN entries[1]

AllEntriesHaveKeys(entries) ==
    \A i \in 1..Len(entries) : required_keys \subseteq DOMAIN entries[i]

\* (variant: entries that lack a key are left out, the others are returned)
load_users_from_json_skips_bad(file) ==
    IF file.kind = "missing" THEN Throw(Exc("FileNotFoundError", <<"No such file">>))
    ELSE IF file.kind = "malformed" THEN Throw(Exc("JSONDecodeError", <<"Expecting value">>))
    ELSE Ret(SelectSeq(file.entries, LAMBDA e : required_keys \subseteq DOMAIN e))

load_users_from_json(file) ==
    IF file.kind = "missing" THEN Throw(Exc("FileNotFoundError", <<"No such file">>))
    ELSE IF file.kind = "malformed" THEN Throw(Exc("JSONDecodeError", <<"Expecting value">>))
    ELSE IF ~AllEntriesHaveKeys(file.entries)
         THEN Throw(Exc("ValueError", <<"User entry missing required keys">>))
         ELSE Ret(file.entries)

\* post_to_teams: one requests.post, then raise_for_status.  A RequestException
\* (connection error, HTTPError on a non-2xx status) gives False; any other
\* exception is not caught here.
post_to_teams(transport) ==
    IF transport = "2xx" THEN [raised |-> FALSE, exc |-> Exc("none", <<>>), value |-> TRUE]
    ELSE IF transport \in {"non_2xx", "connection_error"}
         THEN [raised |-> FALSE, exc |-> Exc("none", <<>>), value |-> FALSE]
         ELSE [raised |-> TRUE, exc |-> Exc("Exception", <<"Post failed">>),
               value |-> FALSE]

Transports == {"2xx", "non_2xx", "connection_error", "other_error"}

\* lines 425 and 428: the diagnostic line of main's except clauses
FailedLine(exc, username) ==
    IF exc.type = "SpotifyAuthError"
    THEN <<"Authentication failed for ">> \o username \o <<": ">> \o exc.text
    ELSE <<"Error processing ">> \o username \o <<": ">> \o exc.text

(***************************************************************************)
(* format_tracks_for_teams: the body of the adaptive card.                 *)
(***************************************************************************)
TextBlock(text, color, size) ==
    [type |-> "TextBlock", text |-> text, color |-> color, size |-> size]

Separator == TextBlock(<<>>, "", "Small")

\* lines 235-287: the block of the i-th track
\* (variant: enumerate(tracks) without the start value 1)
TrackItemZeroBased(i, track) ==
    [type |-> "ColumnSet",
     rank |-> <<ToString(i - 1), ".">>,
     name |-> <<"**">> \o track.name \o <<"**">>,
     artist |-> <<"by ">> \o track.artist,
     album |-> <<"Album: ">> \o track.album,
     selectAction |-> IF TruthyOpt(track.external_urls) THEN track.external_urls ELSE None]

TrackItem(i, track) ==
    [type |-> "ColumnSet",
     rank |-> <<ToString(i), ".">>,
     name |-> <<"**">> \o track.name \o <<"**">>,
     artist |-> <<"by ">> \o track.artist,
     album |-> <<"Album: ">> \o track.album,
     selectAction |-> IF TruthyOpt(track.external_urls) THEN track.external_urls ELSE None]

\* lines 233-300: the items of the container, from the i-th track on
\* (variant: a separator after every track, the last one too)
RECURSIVE ContainerItemsTrailingSeparator(_, _)
ContainerItemsTrailingSeparator(track_list, i) ==
    IF i > Len(track_list) THEN <<>>
    ELSE <<TrackItem(i, track_list[i]), Separator>>
         \o ContainerItemsTrailingSeparator(track_list, i + 1)

RECURSIVE ContainerItems(_, _)
ContainerItems(track_list, i) ==
    IF i > Len(track_list) THEN <<>>
    ELSE <<TrackItem(i, track_list[i])>>
         \o (IF i < Len(track_list) THEN <<Separator>> ELSE <<>>)
         \o ContainerItems(track_list, i + 1)

\* lines 196-302: card_body of a list that is not empty
CardBody(username, track_list) ==
    LET most_recent_track == track_list[1]
        header == TextBlock(<<"Recently Played ", ToString(Len(track_list)),
                              " Tracks for ">> \o username, "", "Large")
        cover == IF TruthyOpt(most_recent_track.album_cover_url)
                 THEN <<[type |-> "Image", url |-> most_recent_track.album_cover_url[1],
                         altText |-> <<"Album cover for ">> \o most_recent_track.album],
                        TextBlock(<<"Album: ">> \o most_recent_track.album,
                                  "Accent", "Small")>>
                 ELSE <<>>
    IN <<header>> \o cover
       \o <<[type |-> "Container", items |-> ContainerItems(track_list, 1)]>>

\* (variant: without the early return for an empty list; the card of a list of
\* no tracks is a header and an empty container)
format_tracks_for_teams_without_empty_case(username, track_list) ==
    IF track_list = <<>>
    THEN <<TextBlock(<<"Recently Played ", "0", " Tracks for ">> \o username, "", "Large"),
           [type |-> "Container", items |-> <<>>]>>
    ELSE CardBody(username, track_list)

format_tracks_for_teams(username, track_list) ==
    IF track_list = <<>>
    THEN <<TextBlock(<<"No recently played tracks found for ">> \o username,
                     "Attention", "Medium")>>
    ELSE CardBody(username, track_list)

(***************************************************************************)
(* cli.py: fetch_recently_played.  `recently_played` is what the call of   *)
(* spotify_client.current_user_recently_played does: it raises, or returns *)
(* a dict `results`.                                                       *)
(***************************************************************************)
\* line 111: "Spotify API limit is 50"
SpotifyApiLimit == 50
\* line 132: the height from which an image counts as medium-sized
MediumHeight == 300

MsgFetchFailed == <<"Failed to fetch recently played tracks: ">>

\* line 111: limit=min(num_tracks, 50)
\* (variant: the requested count passed on as it is)
limitUnclamped(num_tracks) == num_tracks

limit(num_tracks) ==
    IF num_tracks < SpotifyApiLimit THEN num_tracks ELSE SpotifyApiLimit

\* line 123: track_id not in seen_tracks
\* (variant: no track counts as seen)
NotSeenNeverSkips(track_id, seen_tracks) == TRUE

NotSeen(track_id, seen_tracks) == track_id \notin seen_tracks

\* line 152: len(tracks) >= num_tracks
EnoughTracks(track_list, num_tracks) == Len(track_list) >= num_tracks

\* lines 127-135: the loop over track["album"]["images"], album_cover_url being
\* the value the earlier images left
RECURSIVE SelectCover(_, _)
SelectCover(images, album_cover_url) ==
    IF images = <<>> THEN album_cover_url
    ELSE LET image == Head(images)
         IN SelectCover(Tail(images),
                IF image.height >= MediumHeight THEN Some(image.url)
                ELSE IF ~TruthyOpt(album_cover_url) THEN Some(image.url)
                ELSE album_cover_url)

\* line 139: ", ".join([artist["name"] for artist in track["artists"]])
RECURSIVE JoinNames(_)
JoinNames(artists) ==
    IF artists = <<>> THEN <<>>
    ELSE IF Len(artists) = 1 THEN artists[1].name
    ELSE artists[1].name \o <<", ">> \o JoinNames(Tail(artists))

\* Keys of `track` subscripted while track_info is built, in evaluation order
\* (lines 128-145); item["played_at"] follows them (line 146).
TrackKeys == <<"album", "name", "artists", "popularity", "external_urls", "preview_url">>

\* lines 127-148
TrackInfo(item) ==
    LET track == item["track"]
    IN [name |-> track["name"],
        artist |-> JoinNames(track["artists"]),
        album |-> track["album"]["name"],
        popularity |-> track["popularity"],
        external_urls |-> Some(track["external_urls"]["spotify"]),
        preview_url |-> track["preview_url"],
        played_at |-> item["played_at"],
        album_cover_url |-> SelectCover(track["album"]["images"], None)]

\* State of the loop: the list built so far (or the exception raised), the
\* ids seen, the number of items of results["items"] taken, and whether the
\* loop has ended by break or by an exception.
LoopStart ==
    [raised |-> FALSE, exc |-> Exc("none", <<>>), value |-> <<>>, seen_tracks |-> {},
     consumed |-> 0, ended |-> FALSE]
LoopRaised(exc, n) ==
    [raised |-> TRUE, exc |-> exc, value |-> <<>>, seen_tracks |-> {},
     consumed |-> n, ended |-> TRUE]

\* lines 119-153: the body of the loop, for one item
LoopBody(st, item, num_tracks) ==
    LET n == st.consumed + 1
    IN IF "track" \notin DOMAIN item
       THEN LoopRaised(Exc("KeyError", KeyErrorText("track")), n)
       ELSE IF "id" \notin DOMAIN item["track"]
       THEN LoopRaised(Exc("KeyError", KeyErrorText("id")), n)
       ELSE IF ~NotSeen(item["track"]["id"], st.seen_tracks)
       THEN [st EXCEPT !.consumed = n]
       ELSE IF FirstMissing(item["track"], TrackKeys) # ""
       THEN LoopRaised(Exc("KeyError",
                           KeyErrorText(FirstMissing(item["track"], TrackKeys))), n)
       ELSE IF "played_at" \notin DOMAIN item
       THEN LoopRaised(Exc("KeyError", KeyErrorText("played_at")), n)
       ELSE LET longer == Append(st.value, TrackInfo(item))
            IN [raised |-> FALSE, exc |-> Exc("none", <<>>), value |-> longer,
                seen_tracks |-> st.seen_tracks \cup {item["track"]["id"]},
                consumed |-> n, ended |-> EnoughTracks(longer, num_tracks)]

\* lines 118-153: for item in results["items"], from the state st on
RECURSIVE ConsumeItems(_, _, _)
ConsumeItems(items, st, num_tracks) ==
    IF st.ended \/ st.consumed = Len(items) THEN st
    ELSE ConsumeItems(items, LoopBody(st, items[st.consumed + 1], num_tracks), num_tracks)

\* lines 109-155: the try body
FetchBody(recently_played, num_tracks) ==
    IF recently_played.raises
    THEN LoopRaised(Exc("Exception", recently_played.text), 0)
    ELSE IF "items" \notin DOMAIN recently_played.results
    THEN LoopRaised(Exc("KeyError", KeyErrorText("items")), 0)
    ELSE ConsumeItems(recently_played.results["items"], LoopStart, num_tracks)

\* lines 157-158: except Exception as e
\* (variant: the exception passed on as it is)
FetchHandlerReraises(e) == Throw(e)

FetchHandler(e) == Throw(Exc("Exception", MsgFetchFailed \o e.text))

\* The call: the limit handed to current_user_recently_played, the number of
\* items consumed, and what the caller gets.
fetch_recently_played(recently_played, num_tracks) ==
    LET body == FetchBody(recently_played, num_tracks)
    IN [limit |-> limit(num_tracks),
        consumed |-> body.consumed,
        result |-> IF body.raised THEN FetchHandler(body.exc) ELSE Ret(body.value)]

(***************************************************************************)
(* Inputs of a run.                                                        *)
(***************************************************************************)
Restrict(d, keys) == [k \in keys |-> d[k]]

FullUser(name, client_id, token) ==
    [username |-> name, client_id |-> client_id, client_secret |-> <<"secret">>,
     redirect_uri |-> <<"uri">>, refresh_token |-> token]

\* Entries a users.json file may hold: a provisioned user, one whose refresh
\* token is still the placeholder, one with an empty refresh token, and one
\* that lacks the client_id key.
FileEntries ==
    {FullUser(<<"alice">>, <<"id">>, <<"_1">>),
     FullUser(<<"bob">>, <<"id">>, PlaceholderMarker \o <<"_1">>),
     FullUser(<<"carol">>, <<"id">>, <<>>),
     Restrict(FullUser(<<"dave">>, <<"id">>, <<"_1">>), required_keys \ {"client_id"})}

Files ==
    {[kind |-> "missing", entries |-> <<>>], [kind |-> "malformed", entries |-> <<>>]}
    \cup {[kind |-> "list", entries |-> e] : e \in SeqsUpTo(FileEntries, MaxUsers)}

\* An option that is not given, given empty, or given as `url`.
WebhookOptions(url) == {None, Some(<<>>), Some(url)}

\* The environments of a run: every choice of --teams-webhook and WEBHOOK_URL
\* with every file of at most MaxUsersAnyWebhook entries, and WEBHOOK_URL alone
\* with every file.
Environments ==
    {[cli |-> c, env |-> e, file |-> f] :
        c \in WebhookOptions(<<"https://cli.webhook.url">>),
        e \in WebhookOptions(<<"https://env.webhook.url">>),
        f \in {g \in Files : Len(g.entries) <= MaxUsersAnyWebhook}}
    \cup {[cli |-> None, env |-> Some(<<"https://env.webhook.url">>), file |-> f] : f \in Files}

\* A track entry as fetch_recently_played builds it (cli.py lines 137-148).
SampleTrack ==
    [name |-> <<"Test Song">>, artist |-> <<"Test Artist">>, album |-> <<"Test Album">>,
     popularity |-> 85,
     external_urls |-> Some(<<"https://open.spotify.com/track/1">>),
     preview_url |-> Some(<<"https://preview.url">>),
     played_at |-> <<"1">>,
     album_cover_url |-> Some(<<"https://i.scdn.co/image/1">>)]

\* Track lists the fetch stage may hand back to main.
TrackLists == {<<>>, <<SampleTrack>>}

\* The records authenticate_user is called with: any subset of the keys, any
\* refresh token.  client_id, client_secret and redirect_uri, when present, are
\* non-empty: SpotifyOAuth(...) of lines 38-44 is library code that only keeps
\* its arguments, and is taken to return for such values.
CredentialDicts ==
    {Restrict(FullUser(<<"alice">>, <<"id">>, t), keys) :
        t \in SeqsUpTo(TokenSymbols, MaxTokenLen),
        keys \in SUBSET required_keys}

NoResult == Returned(<<>>, 0)

\* The exchange outcomes drawn in a batch run: as Upstreams, with one access token.
BatchUpstreams ==
    {u \in Upstreams :
        "access_token" \in DOMAIN u.token_info => u.token_info["access_token"] = <<"access_1">>}

\* An album image of the upstream response.
Image(height) == [height |-> height, url |-> <<"https://i.scdn.co/image/", ToString(height)>>]

Heights == {64, 300, 640}

ImageLists ==
    {[i \in 1..Len(hs) |-> Image(hs[i])] : hs \in SeqsUpTo(Heights, MaxImages)}

\* A well-formed track object of the upstream response.
Track(id, artist_names, images) ==
    [id |-> id,
     name |-> <<"Song ", id>>,
     artists |-> [i \in 1..Len(artist_names) |-> [name |-> <<artist_names[i]>>]],
     album |-> [name |-> <<"Album ", id>>, images |-> images],
     popularity |-> 85,
     external_urls |-> [spotify |-> <<"https://open.spotify.com/track/", id>>],
     preview_url |-> None]

\* The items of a response are drawn from these: three tracks, an item without
\* the "track" key, and a play of track B whose object lacks "popularity".
ItemKinds == {"A", "B", "C", "no_track", "B_no_popularity"}

\* The i-th item of a response; played_at tells the plays of one track apart.
Item(kind, i) ==
    LET played_at == <<ToString(i)>>
        a == Track("A", <<"Artist 1", "Artist 2">>, <<Image(640), Image(300), Image(64)>>)
        b == Track("B", <<"Artist 1">>, <<>>)
        c == Track("C", <<"Artist 3">>, <<Image(64)>>)
    IN IF kind = "A" THEN [track |-> a, played_at |-> played_at]
       ELSE IF kind = "B" THEN [track |-> b, played_at |-> played_at]
       ELSE IF kind = "C" THEN [track |-> c, played_at |-> played_at]
       ELSE IF kind = "no_track" THEN [played_at |-> played_at]
       ELSE [track |-> Restrict(b, DOMAIN b \ {"popularity"}), played_at |-> played_at]

Items(kinds) == [i \in 1..Len(kinds) |-> Item(kinds[i], i)]

\* n plays of n different tracks
DistinctItems(n) ==
    [i \in 1..n |-> [track |-> Track(ToString(i), <<"Artist 1">>, <<>>),
                     played_at |-> <<ToString(i)>>]]

Response(items) == [raises |-> FALSE, text |-> <<>>, results |-> [items |-> items]]

\* What current_user_recently_played may do.
RecentlyPlayed ==
    {Response(Items(kinds)) : kinds \in SeqsUpTo(ItemKinds, MaxItems)}
    \cup {Response(<<[track |-> Track("A", <<"Artist 1">>, images), played_at |-> <<"1">>]>>) :
            images \in ImageLists}
    \cup {Response(DistinctItems(n)) : n \in {SpotifyApiLimit, SpotifyApiLimit + 1}}
    \cup {[raises |-> TRUE, text |-> <<"API Error">>, results |-> EmptyDict],
          [raises |-> FALSE, text |-> <<>>, results |-> EmptyDict]}

\* Values of --num-tracks.
NumTracks ==
    (-1..(MaxItems + 1))
    \cup {SpotifyApiLimit, SpotifyApiLimit + 1, 2 * SpotifyApiLimit}

NoFetchResult == Ret(<<>>)

\* Usernames and track lists format_tracks_for_teams is called with.
Usernames == {<<>>, <<"alice">>, <<"bob">>}

FormatTracks ==
    {SampleTrack,
     [SampleTrack EXCEPT !.name = <<"Song 2">>, !.artist = <<"Artist 2">>,
                         !.external_urls = None, !.album_cover_url = None],
     [SampleTrack EXCEPT !.name = <<"Song 3">>, !.artist = <<"Artist 1", ", ", "Artist 3">>,
                         !.album = <<"Album 3">>, !.external_urls = Some(<<>>)]}

FormatTrackLists == SeqsUpTo(FormatTracks, MaxTracks)

VARIABLES
    teams_webhook,     \* --teams-webhook, None when not given
    env_webhook,       \* WEBHOOK_URL of the environment, None when not set
    users_json,        \* the file behind the users.json path
    pc,                \* position of main
    webhook_url,       \* main's local
    users,             \* main's local: the loaded records
    cur,               \* index in users of the record of the current iteration
    spotify_client,    \* main's local: the session of the last authentication
    tracks,            \* main's local
    message,           \* main's local
    successful_posts,  \* main's local
    failed_posts,      \* main's local
    events,            \* what the run did, in order
    user_credentials,  \* argument of a call of authenticate_user
    upstream,          \* what the token exchange of that call does
    auth_result,       \* outcome of that call
    apc,               \* position of that call
    recently_played,   \* what current_user_recently_played does in a call of fetch_recently_played
    num_tracks,        \* argument of that call
    limit_arg,         \* the limit that call handed to current_user_recently_played
    consumed,          \* number of items of the response that call took
    fetch_result,      \* outcome of that call
    fpc,               \* position of that call
    username,          \* argument of a call of format_tracks_for_teams
    track_list,        \* argument of that call
    card_body,         \* the body of the document that call returned
    mpc                \* position of that call

envVars == <<teams_webhook, env_webhook, users_json>>
mainVars ==
    <<pc, webhook_url, users, cur, spotify_client, tracks, message,
      successful_posts, failed_posts, events>>
authVars == <<user_credentials, upstream, auth_result, apc>>
fetchVars == <<recently_played, num_tracks, limit_arg, consumed, fetch_result, fpc>>
formatVars == <<username, track_list, card_body, mpc>>
vars == <<envVars, mainVars, authVars, fetchVars, formatVars>>

\* One entry of the run's history: a call of a stage for record `user` (0 for the
\* run itself) with how it ended, or a line the run printed.
Event(user, stage, result, text) ==
    [user |-> user, stage |-> stage, result |-> result, text |-> text]

NoSession == [owner |-> 0, token |-> <<>>]

(***************************************************************************)
(* main: one action per step between two calls of a collaborator.          *)
(***************************************************************************)
AuthIdle ==
    /\ user_credentials = EmptyDict
    /\ upstream = CHOOSE u \in Upstreams : u.raises = "SpotifyOauthError"
    /\ auth_result = NoResult
    /\ apc = "idle"

FetchIdle ==
    /\ recently_played = [raises |-> TRUE, text |-> <<"API Error">>, results |-> EmptyDict]
    /\ num_tracks = 0
    /\ limit_arg = 0
    /\ consumed = 0
    /\ fetch_result = NoFetchResult
    /\ fpc = "idle"

FormatIdle ==
    /\ username = <<>>
    /\ track_list = <<>>
    /\ card_body = <<>>
    /\ mpc = "idle"

MainStart ==
    /\ pc = "start"
    /\ webhook_url = <<>>
    /\ users = <<>>
    /\ cur = 0
    /\ spotify_client = NoSession
    /\ tracks = <<>>
    /\ message = <<>>
    /\ successful_posts = 0
    /\ failed_posts = 0
    /\ events = <<>>

Init ==
    /\ \E e \in Environments :
          /\ teams_webhook = e.cli
          /\ env_webhook = e.env
          /\ users_json = e.file
    /\ MainStart
    /\ AuthIdle
    /\ FetchIdle
    /\ FormatIdle

\* user.get("username", "<unknown>") of the current record
UsernameOf(user) == DictGet(user, "username", <<"<unknown>">>)

\* lines 377-388: resolve the webhook URL, or report and return
ResolveWebhook ==
    /\ pc = "start"
    /\ LET r == get_webhook_url(teams_webhook, env_webhook)
       IN IF r.raised
          THEN /\ pc' = "aborted"
               /\ events' = Append(events, Event(0, "error", "raised", <<"Error: ">> \o r.exc.text))
               /\ UNCHANGED webhook_url
          ELSE /\ pc' = "load"
               /\ webhook_url' = r.value
               /\ UNCHANGED events
    /\ UNCHANGED <<users, cur, spotify_client, tracks, message,
                   successful_posts, failed_posts, envVars, authVars, fetchVars, formatVars>>

\* lines 390-398: load the records, or report and return; then zero the counters
LoadUsers ==
    /\ pc = "load"
    /\ LET r == load_users_from_json(users_json)
       IN IF r.raised
          THEN /\ pc' = "aborted"
               /\ events' = Append(events,
                                   Event(0, "error", "raised",
                                         <<"Error loading users: ">> \o r.exc.text))
               /\ UNCHANGED users
          ELSE /\ pc' = "loop"
               /\ users' = r.value
               /\ events' = Append(events, Event(0, "loaded", "ok", <<ToString(Len(r.value))>>))
    /\ UNCHANGED <<webhook_url, cur, spotify_client, tracks, message,
                   successful_posts, failed_posts, envVars, authVars, fetchVars, formatVars>>

\* lines 400-402: the for statement takes the next record
\* (variant: the next record is taken while the current one awaits its post)
NextUserBeforeResolved ==
    /\ pc \in {"loop", "post"}
    /\ cur < Len(users)
    /\ cur' = cur + 1
    /\ pc' = "authenticate"
    /\ events' = Append(events, Event(cur + 1, "begin", "ok", UsernameOf(users[cur + 1])))
    /\ UNCHANGED <<webhook_url, users, spotify_client, tracks, message,
                   successful_posts, failed_posts, envVars, authVars, fetchVars, formatVars>>

NextUser ==
    /\ pc = "loop"
    /\ cur < Len(users)
    /\ cur' = cur + 1
    /\ pc' = "authenticate"
    /\ events' = Append(events, Event(cur + 1, "begin", "ok", UsernameOf(users[cur + 1])))
    /\ UNCHANGED <<webhook_url, users, spotify_client, tracks, message,
                   successful_posts, failed_posts, envVars, authVars, fetchVars, formatVars>>

\* the except clauses of lines 424-429: one diagnostic line, failed_posts += 1,
\* and the for statement goes on
\* (variant: the exception ends the for statement)
FailEndsRun(log, exc) ==
    /\ events' = Append(log, Event(cur, "failed", "ok", FailedLine(exc, UsernameOf(users[cur]))))
    /\ failed_posts' = failed_posts + 1
    /\ successful_posts' = successful_posts
    /\ pc' = "done"

\* (variant: the failure is logged but not counted)
FailUncounted(log, exc) ==
    /\ events' = Append(log, Event(cur, "failed", "ok", FailedLine(exc, UsernameOf(users[cur]))))
    /\ failed_posts' = failed_posts
    /\ successful_posts' = successful_posts
    /\ pc' = "loop"

\* (variant: a failed authentication is logged and the iteration goes on)
FailThenFallsThrough(log, exc) ==
    /\ events' = Append(log, Event(cur, "failed", "ok", FailedLine(exc, UsernameOf(users[cur]))))
    /\ failed_posts' = failed_posts + 1
    /\ successful_posts' = successful_posts
    /\ pc' = IF pc = "authenticate" THEN "fetch" ELSE "loop"

\* (variant: the failed stage is attempted again)
FailRetriesStage(log, exc) ==
    /\ events' = Append(log, Event(cur, "failed", "ok", FailedLine(exc, UsernameOf(users[cur]))))
    /\ failed_posts' = failed_posts
    /\ successful_posts' = successful_posts
    /\ pc' = pc

\* (variant: without the except Exception clause; an error that is no
\* SpotifyAuthError leaves main)
FailOnlyAuthErrors(log, exc) ==
    IF exc.type = "SpotifyAuthError"
    THEN /\ events' = Append(log, Event(cur, "failed", "ok",
                                        FailedLine(exc, UsernameOf(users[cur]))))
         /\ failed_posts' = failed_posts + 1
         /\ successful_posts' = successful_posts
         /\ pc' = "loop"
    ELSE /\ events' = log
         /\ failed_posts' = failed_posts
         /\ successful_posts' = successful_posts
         /\ pc' = "raised"

\* (variant: the failure is counted and the run stops where it is)
FailStopsRun(log, exc) ==
    /\ events' = Append(log, Event(cur, "failed", "ok", FailedLine(exc, UsernameOf(users[cur]))))
    /\ failed_posts' = failed_posts + 1
    /\ successful_posts' = successful_posts
    /\ pc' = "raised"

Fail(log, exc) ==
    /\ events' = Append(log, Event(cur, "failed", "ok", FailedLine(exc, UsernameOf(users[cur]))))
    /\ failed_posts' = failed_posts + 1
    /\ successful_posts' = successful_posts
    /\ pc' = "loop"

\* line 406: spotify_client = authenticate_user(user), the session of record i
\* (variant: a session once obtained is kept for the records that follow)
NewSessionCached(previous, i, token) ==
    IF previous = NoSession THEN [owner |-> i, token |-> token] ELSE previous

NewSession(previous, i, token) == [owner |-> i, token |-> token]

\* lines 406-407
Authenticate ==
    /\ pc = "authenticate"
    /\ \E up \in BatchUpstreams :
          LET r == authenticate_user(users[cur], up)
              exchanged == IF r.exchanges > 0
                           THEN Append(events, Event(cur, "exchange", up.raises, <<>>))
                           ELSE events
              log == Append(exchanged,
                            Event(cur, "authenticate",
                                  IF r.raised THEN "raised" ELSE "ok", <<>>))
          IN IF r.raised
             THEN /\ Fail(log, r.exc)
                  /\ UNCHANGED spotify_client
             ELSE /\ events' = log
                  /\ spotify_client' = NewSession(spotify_client, cur, r.token)
                  /\ pc' = "fetch"
                  /\ UNCHANGED <<successful_posts, failed_posts>>
    /\ UNCHANGED <<webhook_url, users, cur, tracks, message, envVars, authVars, fetchVars, formatVars>>

\* lines 410-411: fetch_recently_played returns a track list or raises; the
\* event tells the record of the session handed over and, on a return, the
\* length of the list
Fetch ==
    /\ pc = "fetch"
    /\ LET session == <<ToString(spotify_client.owner)>>
       IN \/ /\ Fail(Append(events, Event(cur, "fetch", "raised", session)),
                     Exc("Exception", <<"Failed to fetch recently played tracks: ">>))
             /\ UNCHANGED tracks
          \/ \E fetched \in TrackLists :
                /\ tracks' = fetched
                /\ events' = Append(events, Event(cur, "fetch", "ok",
                                                  session \o <<ToString(Len(fetched))>>))
                /\ pc' = "format"
                /\ UNCHANGED <<successful_posts, failed_posts>>
    /\ UNCHANGED <<webhook_url, users, cur, spotify_client, message, envVars, authVars, fetchVars, formatVars>>

\* line 414: format_tracks_for_teams returns the document, or raises on a
\* track dictionary it cannot read (a stand-in: it reads no track of an empty
\* list, lines 173-194)
\* (variant: a record without tracks is given up, nothing is posted for it)
FormatGivesUpOnEmpty ==
    /\ pc = "format"
    /\ \/ /\ tracks = <<>>
          /\ Fail(Append(events, Event(cur, "format", "raised", <<>>)),
                  Exc("Exception", <<"No tracks">>))
          /\ UNCHANGED message
       \/ /\ tracks # <<>>
          /\ message' = format_tracks_for_teams(UsernameOf(users[cur]), tracks)
          /\ events' = Append(events, Event(cur, "format", "ok", <<>>))
          /\ pc' = "post"
          /\ UNCHANGED <<successful_posts, failed_posts>>
    /\ UNCHANGED <<webhook_url, users, cur, spotify_client, tracks, envVars, authVars, fetchVars, formatVars>>

Format ==
    /\ pc = "format"
    /\ \/ /\ tracks # <<>>
          /\ Fail(Append(events, Event(cur, "format", "raised", <<>>)),
                  Exc("Exception", <<"Format failed">>))
          /\ UNCHANGED message
       \/ /\ message' = format_tracks_for_teams(UsernameOf(users[cur]), tracks)
          /\ events' = Append(events, Event(cur, "format", "ok", <<>>))
          /\ pc' = "post"
          /\ UNCHANGED <<successful_posts, failed_posts>>
    /\ UNCHANGED <<webhook_url, users, cur, spotify_client, tracks, envVars, authVars, fetchVars, formatVars>>

\* lines 417-422: the branch on what post_to_teams returned
\* (variant: the return value of post_to_teams is ignored)
ResolveAlwaysSuccess(log, posted) ==
    /\ events' = Append(log, Event(cur, "success", "ok", UsernameOf(users[cur])))
    /\ successful_posts' = successful_posts + 1
    /\ UNCHANGED failed_posts
    /\ pc' = "loop"

Resolve(log, posted) ==
    /\ IF posted
       THEN /\ events' = Append(log, Event(cur, "success", "ok", UsernameOf(users[cur])))
            /\ successful_posts' = successful_posts + 1
            /\ UNCHANGED failed_posts
       ELSE /\ events' = Append(log, Event(cur, "failed", "ok",
                                   <<"Failed to post tracks for ">>
                                       \o UsernameOf(users[cur]) \o <<" to Teams">>))
            /\ failed_posts' = failed_posts + 1
            /\ UNCHANGED successful_posts
    /\ pc' = "loop"

\* lines 417-422 with the call of post_to_teams
Post ==
    /\ pc = "post"
    /\ \E transport \in Transports :
          LET r == post_to_teams(transport)
              log == Append(events,
                            Event(cur, "post",
                                  IF r.raised THEN "raised"
                                  ELSE IF r.value THEN "True" ELSE "False", <<>>))
          IN IF r.raised THEN Fail(log, r.exc) ELSE Resolve(log, r.value)
    /\ UNCHANGED <<webhook_url, users, cur, spotify_client, tracks, message,
                   envVars, authVars, fetchVars, formatVars>>

\* lines 431-435: the summary, once the for statement is exhausted
Summary ==
    /\ pc = "loop"
    /\ cur = Len(users)
    /\ pc' = "done"
    /\ events' = Append(events,
                        Event(0, "summary", "ok",
                              <<ToString(successful_posts), ToString(failed_posts),
                                ToString(Len(users))>>))
    /\ UNCHANGED <<webhook_url, users, cur, spotify_client, tracks, message,
                   successful_posts, failed_posts, envVars, authVars, fetchVars, formatVars>>

Next ==
    \/ ResolveWebhook
    \/ LoadUsers
    \/ NextUser
    \/ Authenticate
    \/ Fetch
    \/ Format
    \/ Post
    \/ Summary

Spec == Init /\ [][Next]_vars

\* Every call main makes returns or raises: a run that can take a step takes one.
FairSpec == Spec /\ WF_vars(Next)

(***************************************************************************)
(* One call of authenticate_user, on any record and any upstream outcome.  *)
(***************************************************************************)
AuthInit ==
    /\ teams_webhook = None
    /\ env_webhook = None
    /\ users_json = [kind |-> "missing", entries |-> <<>>]
    /\ MainStart
    /\ user_credentials \in CredentialDicts
    /\ upstream \in Upstreams
    /\ auth_result = NoResult
    /\ apc = "call"
    /\ FetchIdle
    /\ FormatIdle

CallAuthenticateUser ==
    /\ apc = "call"
    /\ auth_result' = authenticate_user(user_credentials, upstream)
    /\ apc' = "returned"
    /\ UNCHANGED <<user_credentials, upstream, envVars, mainVars, fetchVars, formatVars>>

AuthNext == CallAuthenticateUser

AuthSpec == AuthInit /\ [][AuthNext]_vars

(***************************************************************************)
(* One call of fetch_recently_played, on any response and requested count. *)
(***************************************************************************)
FetchInit ==
    /\ teams_webhook = None
    /\ env_webhook = None
    /\ users_json = [kind |-> "missing", entries |-> <<>>]
    /\ MainStart
    /\ AuthIdle
    /\ FormatIdle
    /\ recently_played \in RecentlyPlayed
    /\ num_tracks \in NumTracks
    /\ limit_arg = 0
    /\ consumed = 0
    /\ fetch_result = NoFetchResult
    /\ fpc = "call"

CallFetchRecentlyPlayed ==
    /\ fpc = "call"
    /\ LET call == fetch_recently_played(recently_played, num_tracks)
       IN /\ limit_arg' = call.limit
          /\ consumed' = call.consumed
          /\ fetch_result' = call.result
    /\ fpc' = "returned"
    /\ UNCHANGED <<recently_played, num_tracks, envVars, mainVars, authVars, formatVars>>

FetchNext == CallFetchRecentlyPlayed

FetchSpec == FetchInit /\ [][FetchNext]_vars

(***************************************************************************)
(* One call of format_tracks_for_teams, on any username and track list.    *)
(***************************************************************************)
FormatInit ==
    /\ teams_webhook = None
    /\ env_webhook = None
    /\ users_json = [kind |-> "missing", entries |-> <<>>]
    /\ MainStart
    /\ AuthIdle
    /\ FetchIdle
    /\ username \in Usernames
    /\ track_list \in FormatTrackLists
    /\ card_body = <<>>
    /\ mpc = "call"

CallFormatTracksForTeams ==
    /\ mpc = "call"
    /\ card_body' = format_tracks_for_teams(username, track_list)
    /\ mpc' = "returned"
    /\ UNCHANGED <<username, track_list, envVars, mainVars, authVars, fetchVars>>

FormatNext == CallFormatTracksForTeams

FormatSpec == FormatInit /\ [][FormatNext]_vars

(***************************************************************************)
(* Vocabulary of the properties: what the history says about record i.     *)
(***************************************************************************)
Calls(i, stage) ==
    Cardinality({k \in DOMAIN events : events[k].user = i /\ events[k].stage = stage})

Ended(i, stage, result) ==
    \E k \in DOMAIN events :
        events[k].user = i /\ events[k].stage = stage /\ events[k].result = result

Started(i) == Calls(i, "begin") > 0
Resolved(i) == Calls(i, "success") + Calls(i, "failed") > 0

\* The events of the records, without those of the run itself.
UserEvents == SelectSeq(events, LAMBDA e : e.user > 0)

\* No more records are in the loop's past than this.
ResolvedCount == IF pc \in {"loop", "done"} THEN cur ELSE IF cur > 0 THEN cur - 1 ELSE 0

\* Record i went as far through authenticate, fetch, format, post as its own
\* outcomes allow, each stage called once.
WholePipeline(i) ==
    /\ Calls(i, "authenticate") = 1
    /\ Calls(i, "fetch") = (IF Ended(i, "authenticate", "ok") THEN 1 ELSE 0)
    /\ Calls(i, "format") = (IF Ended(i, "fetch", "ok") THEN 1 ELSE 0)
    /\ Calls(i, "post") = (IF Ended(i, "format", "ok") THEN 1 ELSE 0)
    /\ Resolved(i)

\* C1: a failure for one user never stops the batch: the run ends only after
\* the last record, every record of the past has had authentication attempted
\* exactly once, and every such record, before or after a failing one, went
\* through its whole pipeline as far as its own outcomes allow.
C1_FailureIsolation ==
    /\ pc = "done" => cur = Len(users)
    /\ \A i \in 1..Len(users) :
          /\ Calls(i, "authenticate") <= 1
          /\ i <= ResolvedCount => WholePipeline(i)

C1_Witness ==
    /\ pc = "done"
    /\ Len(users) = 3
    /\ Ended(1, "post", "True") /\ Ended(1, "success", "ok")
    /\ Ended(2, "authenticate", "raised") /\ Ended(2, "failed", "ok")
    /\ Ended(3, "post", "True") /\ Ended(3, "success", "ok")
    /\ successful_posts = 2 /\ failed_posts = 1

\* C2: each processed record increments exactly one of the two counters by one:
\* after k records successful + failed = k, and the summary reports
\* successful + failed = total = the number of loaded records.
C2_Counters ==
    /\ successful_posts =
          Cardinality({k \in DOMAIN events : events[k].stage = "success"})
    /\ failed_posts =
          Cardinality({k \in DOMAIN events : events[k].stage = "failed"})
    /\ \A i \in 1..Len(users) :
          Calls(i, "success") + Calls(i, "failed") = (IF i <= ResolvedCount THEN 1 ELSE 0)
    /\ successful_posts + failed_posts = ResolvedCount
    /\ pc = "done" =>
          /\ successful_posts + failed_posts = Len(users)
          /\ events[Len(events)].stage = "summary"
          /\ events[Len(events)].text =
                <<ToString(successful_posts), ToString(failed_posts),
                  ToString(Len(users))>>

C2_Witness ==
    /\ pc = "done"
    /\ Len(users) = 2
    /\ successful_posts = 2
    /\ failed_posts = 0
    /\ events[Len(events)].text = <<"2", "0", "2">>

\* C3: a record ends in Success if and only if its authentication succeeded,
\* its fetch succeeded and the post for it returned true; a post that returns
\* false ends the record in Failed.
C3_SuccessIff ==
    \A i \in 1..Len(users) :
        Resolved(i) =>
            /\ Ended(i, "success", "ok") <=>
                  /\ Ended(i, "authenticate", "ok")
                  /\ Ended(i, "fetch", "ok")
                  /\ Ended(i, "post", "True")
            /\ Ended(i, "post", "False") =>
                  Ended(i, "failed", "ok") /\ ~Ended(i, "success", "ok")
            /\ Ended(i, "success", "ok") <=> ~Ended(i, "failed", "ok")

C3_Witness ==
    /\ pc = "done"
    /\ Len(users) = 2
    /\ Ended(1, "post", "False") /\ Ended(1, "failed", "ok")
    /\ Ended(2, "post", "True") /\ Ended(2, "success", "ok")
    /\ successful_posts = 1 /\ failed_posts = 1

\* C4: within one record's pipeline no later stage is entered after an earlier
\* one failed: after a failed authentication there is no fetch, format or post
\* for the record, after a failed fetch no format or post, and the event that
\* follows the failure is the record's Failed.
C4_NoStageAfterFailure ==
    /\ \A i \in 1..Len(users) :
          /\ Ended(i, "authenticate", "raised") =>
                Calls(i, "fetch") = 0 /\ Calls(i, "format") = 0 /\ Calls(i, "post") = 0
          /\ Ended(i, "fetch", "raised") =>
                Calls(i, "format") = 0 /\ Calls(i, "post") = 0
    /\ \A k \in DOMAIN events :
          (events[k].stage \in {"authenticate", "fetch"} /\ events[k].result = "raised") =>
              /\ k < Len(events)
              /\ events[k + 1].stage = "failed"
              /\ events[k + 1].user = events[k].user

C4_Witness ==
    /\ pc = "done"
    /\ Len(users) = 2
    /\ Ended(1, "authenticate", "raised") /\ Calls(1, "fetch") = 0
    /\ Ended(2, "fetch", "raised") /\ Calls(2, "post") = 0
    /\ failed_posts = 2

\* C5: records are processed strictly sequentially in input order: every event
\* of record i comes before the first event of record j > i, a record begins
\* only right after the one before it in the input ended in Success or Failed,
\* and never are two records in progress.
C5_Sequential ==
    /\ \A k \in 1..(Len(UserEvents) - 1) :
          \/ UserEvents[k + 1].user = UserEvents[k].user
          \/ /\ UserEvents[k + 1].user = UserEvents[k].user + 1
             /\ UserEvents[k].stage \in {"success", "failed"}
             /\ UserEvents[k + 1].stage = "begin"
    /\ UserEvents # <<>> => UserEvents[1].user = 1 /\ UserEvents[1].stage = "begin"
    /\ Cardinality({i \in 1..Len(users) : Started(i) /\ ~Resolved(i)}) <= 1
    /\ \A i \in 1..Len(users) : (Started(i) /\ ~Resolved(i)) => i = cur

C5_Witness ==
    /\ pc = "post"
    /\ cur = 2
    /\ Len(users) = 3
    /\ Ended(1, "success", "ok")
    /\ Started(2) /\ ~Resolved(2)
    /\ ~Started(3)

\* C6: if the webhook URL cannot be resolved, or the credential source cannot
\* be read or parsed or fails validation, the run ends with an error report
\* before any user is authenticated, fetched or posted, and no counter is
\* incremented.
SinkUnresolved == ~TruthyOpt(teams_webhook) /\ ~TruthyOpt(env_webhook)

SourceRejected ==
    \/ users_json.kind # "list"
    \/ \E i \in DOMAIN users_json.entries :
          ~(required_keys \subseteq DOMAIN users_json.entries[i])

C6_BatchPreconditions ==
    (SinkUnresolved \/ SourceRejected) =>
        /\ pc \in {"start", "load", "aborted"}
        /\ SinkUnresolved => pc # "load"
        /\ UserEvents = <<>>
        /\ successful_posts = 0 /\ failed_posts = 0
        /\ pc = "aborted" =>
              /\ Len(events) = 1
              /\ events[1].stage = "error"

C6_Witness ==
    /\ pc = "aborted"
    /\ ~SinkUnresolved
    /\ users_json.kind = "list"
    /\ Len(users_json.entries) = 2
    /\ required_keys \subseteq DOMAIN users_json.entries[1]
    /\ "client_id" \notin DOMAIN users_json.entries[2]
    /\ events[1].stage = "error"

(***************************************************************************)
(* Properties of authenticate_user.                                        *)
(***************************************************************************)
\* The kinds of the error taxonomy an error message bears the text of.
KindText(kind) ==
    CASE kind = "PlaceholderCredential" -> MsgPlaceholder
      [] kind = "MissingCredential" -> MsgMissingRefresh
      [] kind = "MissingField" -> PrefixMissingField
      [] kind = "UpstreamRejected" -> PrefixAuthFailed
      [] kind = "Unexpected" -> PrefixUnexpected

KindNames ==
    {"PlaceholderCredential", "MissingCredential", "MissingField",
     "UpstreamRejected", "Unexpected"}

Kinds(text) == {kind \in KindNames : Contains(text, KindText(kind))}

PlaceholderRecord ==
    /\ "refresh_token" \in DOMAIN user_credentials
    /\ StartsWith(user_credentials["refresh_token"], PlaceholderMarker)

OAuthFieldsPresent ==
    {"client_id", "client_secret", "redirect_uri"} \subseteq DOMAIN user_credentials

\* C7: for every record whose refresh_token starts with the placeholder marker,
\* authenticate_user fails without calling refresh_access_token, whatever the
\* other fields of the record are.
C7_PlaceholderNoExchange ==
    (apc = "returned" /\ PlaceholderRecord) =>
        /\ auth_result.raised
        /\ auth_result.exc.type = "SpotifyAuthError"
        /\ auth_result.exchanges = 0

C7_Witness ==
    /\ apc = "returned"
    /\ OAuthFieldsPresent
    /\ "refresh_token" \in DOMAIN user_credentials
    /\ user_credentials["refresh_token"] = PlaceholderMarker \o <<"_1">>
    /\ upstream.raises = "none"
    /\ "access_token" \in DOMAIN upstream.token_info
    /\ auth_result.raised
    /\ auth_result.exchanges = 0

\* C8: a record whose refresh_token starts with the placeholder marker always
\* fails with the PlaceholderCredential kind, a kind distinct from
\* MissingCredential, MissingField, UpstreamRejected and Unexpected.  Stated for
\* the records that hold all five fields.
C8_PlaceholderKind ==
    (apc = "returned" /\ PlaceholderRecord /\ required_keys \subseteq DOMAIN user_credentials) =>
        /\ auth_result.raised
        /\ Kinds(auth_result.exc.text) = {"PlaceholderCredential"}

\* C9: when refresh_token is absent or empty and the other required fields are
\* present, authenticate_user fails with "Missing or empty refresh_token" and
\* performs no token exchange.
C9_MissingCredential ==
    (/\ apc = "returned"
     /\ OAuthFieldsPresent
     /\ \/ "refresh_token" \notin DOMAIN user_credentials
        \/ user_credentials["refresh_token"] = <<>>) =>
        /\ auth_result.raised
        /\ auth_result.exc.type = "SpotifyAuthError"
        /\ Contains(auth_result.exc.text, MsgMissingRefresh)
        /\ "MissingCredential" \in Kinds(auth_result.exc.text)
        /\ Kinds(auth_result.exc.text) \cap
              {"PlaceholderCredential", "MissingField", "UpstreamRejected"} = {}
        /\ auth_result.exchanges = 0

C9_Witness ==
    /\ apc = "returned"
    /\ OAuthFieldsPresent
    /\ "refresh_token" \in DOMAIN user_credentials
    /\ user_credentials["refresh_token"] = <<>>
    /\ upstream.raises = "none"
    /\ auth_result.raised
    /\ Contains(auth_result.exc.text, MsgMissingRefresh)
    /\ auth_result.exchanges = 0

\* C10: when client_id, client_secret or redirect_uri is absent from the record,
\* authenticate_user fails with "Missing required credential field for user
\* <username>: <the absent key>" and performs no token exchange.
C10_MissingField ==
    (apc = "returned" /\ ~OAuthFieldsPresent) =>
        /\ auth_result.raised
        /\ auth_result.exc.type = "SpotifyAuthError"
        /\ \E field \in {"client_id", "client_secret", "redirect_uri"} :
              /\ field \notin DOMAIN user_credentials
              /\ auth_result.exc.text =
                    PrefixMissingField
                        \o (IF "username" \in DOMAIN user_credentials
                            THEN user_credentials["username"] ELSE <<>>)
                        \o <<": ", "'", field, "'">>
        /\ Kinds(auth_result.exc.text) = {"MissingField"}
        /\ auth_result.exchanges = 0

C10_Witness ==
    /\ apc = "returned"
    /\ DOMAIN user_credentials = required_keys \ {"client_id"}
    /\ user_credentials["refresh_token"] = <<"_1">>
    /\ upstream.raises = "none"
    /\ auth_result.raised
    /\ auth_result.exc.text =
          PrefixMissingField \o <<"alice", ": ", "'", "client_id", "'">>
    /\ auth_result.exchanges = 0

\* A record the exchange is attempted for: client_id, client_secret and
\* redirect_uri present, refresh_token non-empty and not a placeholder.
ExchangeableRecord ==
    /\ OAuthFieldsPresent
    /\ "refresh_token" \in DOMAIN user_credentials
    /\ user_credentials["refresh_token"] # <<>>
    /\ ~StartsWith(user_credentials["refresh_token"], PlaceholderMarker)

\* user_credentials.get('username', '')
UsernameText ==
    IF "username" \in DOMAIN user_credentials THEN user_credentials["username"] ELSE <<>>

\* C11: when the upstream authority refuses the exchange (refresh_access_token
\* raises SpotifyOauthError), authenticate_user fails with "Authentication
\* failed for user <username>: <cause>", not with the Unexpected or the
\* MissingField text.
C11_UpstreamRejected ==
    (apc = "returned" /\ ExchangeableRecord /\ upstream.raises = "SpotifyOauthError") =>
        /\ auth_result.raised
        /\ auth_result.exc.type = "SpotifyAuthError"
        /\ auth_result.exc.text =
              PrefixAuthFailed \o UsernameText \o <<": ">> \o upstream.text
        /\ Kinds(auth_result.exc.text) = {"UpstreamRejected"}
        /\ auth_result.exchanges = 1

C11_Witness ==
    /\ apc = "returned"
    /\ ExchangeableRecord
    /\ "username" \in DOMAIN user_credentials
    /\ upstream.raises = "SpotifyOauthError"
    /\ auth_result.raised
    /\ auth_result.exc.text =
          <<"Authentication failed for user ", "alice", ": ", "OAuth error">>

\* C12: for a record with all required fields, a non-empty refresh_token that
\* is no placeholder, and an exchange that returns an access token,
\* authenticate_user raises nothing and returns a session built from the
\* access token that exchange returned.
C12_SessionFromExchange ==
    (/\ apc = "returned"
     /\ ExchangeableRecord
     /\ upstream.raises = "none"
     /\ "access_token" \in DOMAIN upstream.token_info) =>
        /\ ~auth_result.raised
        /\ auth_result.token = upstream.token_info["access_token"]
        /\ auth_result.exchanges = 1

C12_Witness ==
    /\ apc = "returned"
    /\ DOMAIN user_credentials = required_keys
    /\ user_credentials["refresh_token"] = <<"SPOTIFY_REFRESH", "_1">>
    /\ upstream.raises = "none"
    /\ "access_token" \in DOMAIN upstream.token_info
    /\ upstream.token_info["access_token"] = <<"access_2">>
    /\ ~auth_result.raised
    /\ auth_result.token = <<"access_2">>

\* The message of the failure the try body of authenticate_user ends with.
CauseText ==
    IF "client_id" \notin DOMAIN user_credentials THEN <<"'", "client_id", "'">>
    ELSE IF "client_secret" \notin DOMAIN user_credentials THEN <<"'", "client_secret", "'">>
    ELSE IF "redirect_uri" \notin DOMAIN user_credentials THEN <<"'", "redirect_uri", "'">>
    ELSE IF \/ "refresh_token" \notin DOMAIN user_credentials
            \/ user_credentials["refresh_token"] = <<>>
         THEN MsgMissingRefresh
    ELSE IF StartsWith(user_credentials["refresh_token"], PlaceholderMarker)
         THEN MsgPlaceholder
    ELSE IF upstream.raises # "none" THEN upstream.text
    ELSE <<"'", "access_token", "'">>

\* C13: every failure of authenticate_user, of every kind, reaches the caller
\* as a SpotifyAuthError whose message carries the record's username (when the
\* record has one) and the message of the underlying cause.
C13_FailuresAreAuthErrors ==
    (apc = "returned" /\ auth_result.raised) =>
        /\ auth_result.exc.type = "SpotifyAuthError"
        /\ \E prefix \in {PrefixAuthFailed, PrefixMissingField, PrefixUnexpected} :
              auth_result.exc.text = prefix \o UsernameText \o <<": ">> \o CauseText

C13_Witness ==
    /\ apc = "returned"
    /\ DOMAIN user_credentials = required_keys
    /\ user_credentials["refresh_token"] = <<"_1">>
    /\ upstream.raises = "Exception"
    /\ auth_result.raised
    /\ auth_result.exc.text =
          <<"Unexpected authentication error for user ", "alice", ": ", "Connection reset">>

\* C14: no retries in a run: for each record the token exchange, the
\* authentication, the fetch, the formatting and the webhook delivery are each
\* attempted at most once, also after they failed.
C14_NoRetries ==
    \A i \in 1..Len(users) :
        /\ Calls(i, "exchange") <= 1
        /\ Calls(i, "authenticate") <= 1
        /\ Calls(i, "fetch") <= 1
        /\ Calls(i, "format") <= 1
        /\ Calls(i, "post") <= 1

C14_Witness ==
    /\ pc = "done"
    /\ Len(users) = 3
    /\ Ended(1, "exchange", "SpotifyOauthError") /\ Calls(1, "exchange") = 1
    /\ Ended(2, "fetch", "raised") /\ Calls(2, "fetch") = 1
    /\ Ended(3, "post", "False") /\ Calls(3, "post") = 1
    /\ failed_posts = 3

\* The items of the response fetch_recently_played was given (none when the
\* call raised or the response has no "items").
ResponseItems ==
    IF ~recently_played.raises /\ "items" \in DOMAIN recently_played.results
    THEN recently_played.results["items"]
    ELSE <<>>

FetchReturned == fpc = "returned" /\ ~fetch_result.raised

\* Position in the response of the item the k-th returned entry bears the
\* played_at of, and the track id of the item at a position.
SourceOf(k) ==
    CHOOSE i \in 1..Len(ResponseItems) :
        ResponseItems[i]["played_at"] = fetch_result.value[k].played_at
IdAt(i) == ResponseItems[i]["track"]["id"]

\* C15: fetch_recently_played de-duplicates by track id and keeps the order:
\* every returned entry is derived from an item of the response, the entries
\* follow the order of the response, no two entries have the same track id,
\* each is derived from the first play of its track, every track among the
\* items taken is returned, and skipped duplicates do not count toward the
\* requested count (a call that stopped before the end of the response
\* returns exactly the requested count of entries).
C15_Dedup ==
    FetchReturned =>
        LET res == fetch_result.value
            n == Len(res)
        IN /\ \A k \in 1..n :
                 /\ SourceOf(k) \in 1..consumed
                 /\ res[k] = TrackInfo(ResponseItems[SourceOf(k)])
           /\ \A k, l \in 1..n :
                 k < l => /\ SourceOf(k) < SourceOf(l)
                          /\ IdAt(SourceOf(k)) # IdAt(SourceOf(l))
           /\ \A k \in 1..n : \A j \in 1..(SourceOf(k) - 1) : IdAt(j) # IdAt(SourceOf(k))
           /\ \A j \in 1..consumed : \E k \in 1..n : IdAt(SourceOf(k)) = IdAt(j)
           /\ num_tracks >= 1 =>
                 /\ n <= num_tracks
                 /\ consumed < Len(ResponseItems) => n = num_tracks

C15_Witness ==
    /\ FetchReturned
    /\ num_tracks = 3
    /\ Len(ResponseItems) = 4
    /\ [i \in 1..4 |-> IdAt(i)] = <<"A", "B", "A", "C">>
    /\ [k \in 1..Len(fetch_result.value) |-> fetch_result.value[k].name]
          = << <<"Song ", "A">>, <<"Song ", "B">>, <<"Song ", "C">> >>
    /\ [k \in 1..Len(fetch_result.value) |-> fetch_result.value[k].played_at]
          = << <<"1">>, <<"2">>, <<"4">> >>

\* C16: for every requested count, also above 50, zero or negative, the limit
\* handed to current_user_recently_played lies in 0..50; it is the requested
\* count when that lies in 0..50 and 50 when the requested count exceeds 50.
C16_LimitClamped ==
    fpc = "returned" =>
        /\ limit_arg \in 0..SpotifyApiLimit
        /\ num_tracks \in 0..SpotifyApiLimit => limit_arg = num_tracks
        /\ num_tracks > SpotifyApiLimit => limit_arg = SpotifyApiLimit

\* C17: for a requested count >= 0 and a response of at most `limit` items,
\* the returned list is no longer than the requested count and no longer than
\* 50, and the loop ended because the list held the requested count of
\* entries or the response was exhausted; a requested count of 0 gives the
\* empty list.  For a requested count >= 1 and any response, the loop ends at
\* the item that completed the requested count, or at the end of the response.
C17_Bounded ==
    /\ (FetchReturned /\ num_tracks >= 0 /\ Len(ResponseItems) <= limit_arg) =>
          /\ Len(fetch_result.value) <= num_tracks
          /\ Len(fetch_result.value) <= SpotifyApiLimit
          /\ consumed = Len(ResponseItems) \/ Len(fetch_result.value) = num_tracks
          /\ num_tracks = 0 => fetch_result.value = <<>>
    /\ (FetchReturned /\ num_tracks >= 1) =>
          \/ consumed = Len(ResponseItems) /\ Len(fetch_result.value) <= num_tracks
          \/ /\ Len(fetch_result.value) = num_tracks
             /\ SourceOf(num_tracks) = consumed

C17_Witness ==
    /\ FetchReturned
    /\ num_tracks = 2 * SpotifyApiLimit
    /\ limit_arg = SpotifyApiLimit
    /\ Len(ResponseItems) = SpotifyApiLimit
    /\ Len(fetch_result.value) = SpotifyApiLimit
    /\ consumed = SpotifyApiLimit

\* C18: the cover of a returned entry, for album images in any order: when
\* some image has height >= 300, the image of the smallest such height; when
\* there are images but none of height >= 300, one of the images; when there
\* are no images, no cover.
C18_SmallestQualifying ==
    (FetchReturned /\ num_tracks >= 1 /\ Len(fetch_result.value) >= 1) =>
        LET images == ResponseItems[SourceOf(1)]["track"]["album"]["images"]
            cover == fetch_result.value[1].album_cover_url
            qualifying == {i \in 1..Len(images) : images[i].height >= MediumHeight}
        IN IF images = <<>> THEN cover = None
           ELSE IF qualifying = {}
           THEN \E i \in 1..Len(images) : cover = Some(images[i].url)
           ELSE \E i \in qualifying :
                   /\ cover = Some(images[i].url)
                   /\ \A j \in qualifying : images[i].height <= images[j].height

\* The str() of the exception the try body of fetch_recently_played raised.
FetchCause ==
    IF recently_played.raises THEN recently_played.text
    ELSE IF "items" \notin DOMAIN recently_played.results THEN <<"'", "items", "'">>
    ELSE IF "track" \notin DOMAIN ResponseItems[consumed] THEN <<"'", "track", "'">>
    ELSE <<"'", "popularity", "'">>

\* C19: a failure while fetching (the upstream call raising, the response
\* lacking "items", or an item the loop builds an entry from being malformed)
\* makes fetch_recently_played raise an Exception whose message is "Failed to
\* fetch recently played tracks: " followed by the message of the cause, and
\* no track list, also no partial one, is returned.
C19_FetchError ==
    fpc = "returned" =>
        /\ fetch_result.raised =>
              /\ fetch_result.exc.type = "Exception"
              /\ fetch_result.exc.text = MsgFetchFailed \o FetchCause
              /\ fetch_result.value = <<>>
        /\ (\/ recently_played.raises
            \/ "items" \notin DOMAIN recently_played.results
            \/ /\ ResponseItems # <<>>
               /\ \/ "track" \notin DOMAIN ResponseItems[1]
                  \/ "popularity" \notin DOMAIN ResponseItems[1]["track"])
              => fetch_result.raised

C19_Witness ==
    /\ fpc = "returned"
    /\ num_tracks = 2
    /\ Len(ResponseItems) = 2
    /\ "track" \in DOMAIN ResponseItems[1]
    /\ IdAt(1) = "A"
    /\ "track" \notin DOMAIN ResponseItems[2]
    /\ fetch_result.raised
    /\ fetch_result.exc.text =
          <<"Failed to fetch recently played tracks: ", "'", "track", "'">>
    /\ fetch_result.value = <<>>

\* C20: for every username, format_tracks_for_teams of an empty track list
\* returns a body of exactly one block, the attention-coloured text block "No
\* recently played tracks found for <username>": no header, no image, no
\* container.
C20_EmptyList ==
    (mpc = "returned" /\ track_list = <<>>) =>
        /\ Len(card_body) = 1
        /\ card_body[1].type = "TextBlock"
        /\ card_body[1].color = "Attention"
        /\ card_body[1].text = <<"No recently played tracks found for ">> \o username

C20_Witness ==
    /\ mpc = "returned"
    /\ track_list = <<>>
    /\ username = <<"alice">>
    /\ card_body = <<[type |-> "TextBlock",
                      text |-> <<"No recently played tracks found for ", "alice">>,
                      color |-> "Attention", size |-> "Medium"]>>

\* The container of a card of tracks (the last block of its body) and the
\* track blocks in it, in their order.
TrackContainer == card_body[Len(card_body)]
TrackBlocks == SelectSeq(TrackContainer.items, LAMBDA b : b.type = "ColumnSet")

\* C21: for a track list of length n >= 1, the header of the card states the
\* count n and the username, the container holds n track blocks in the order
\* of the list, and the k-th block shows rank k (1..n, no gap, no repeat) and
\* the name, artist and album of the k-th track.
C21_OrderAndRanks ==
    (mpc = "returned" /\ track_list # <<>>) =>
        LET n == Len(track_list)
        IN /\ card_body[1].type = "TextBlock"
           /\ card_body[1].text =
                 <<"Recently Played ", ToString(n), " Tracks for ">> \o username
           /\ TrackContainer.type = "Container"
           /\ Len(TrackBlocks) = n
           /\ \A k \in 1..n :
                 /\ TrackBlocks[k].rank = <<ToString(k), ".">>
                 /\ TrackBlocks[k].name = <<"**">> \o track_list[k].name \o <<"**">>
                 /\ TrackBlocks[k].artist = <<"by ">> \o track_list[k].artist
                 /\ TrackBlocks[k].album = <<"Album: ">> \o track_list[k].album

C21_Witness ==
    /\ mpc = "returned"
    /\ username = <<"bob">>
    /\ Len(track_list) = 3
    /\ [k \in 1..3 |-> track_list[k].name] = << <<"Song 3">>, <<"Test Song">>, <<"Song 2">> >>
    /\ card_body[1].text = <<"Recently Played ", "3", " Tracks for ", "bob">>
    /\ [k \in 1..3 |-> TrackBlocks[k].rank] = << <<"1", ".">>, <<"2", ".">>, <<"3", ".">> >>
    /\ [k \in 1..3 |-> TrackBlocks[k].name]
          = << <<"**", "Song 3", "**">>, <<"**", "Test Song", "**">>, <<"**", "Song 2", "**">> >>

\* C22: for a track list of length n >= 1, the container holds exactly n track
\* blocks and n - 1 separators: track blocks and separators alternate, starting
\* and ending with a track block (no separator at all when n = 1).
C22_Separators ==
    (mpc = "returned" /\ track_list # <<>>) =>
        LET n == Len(track_list)
            items == TrackContainer.items
        IN /\ Len(items) = 2 * n - 1
           /\ \A j \in 1..Len(items) :
                 IF j % 2 = 1 THEN items[j].type = "ColumnSet" ELSE items[j] = Separator
           /\ items[Len(items)].type = "ColumnSet"

C22_Witness ==
    /\ mpc = "returned"
    /\ Len(track_list) = 3
    /\ Len(TrackContainer.items) = 5
    /\ TrackContainer.items[2] = Separator
    /\ TrackContainer.items[4] = Separator
    /\ TrackContainer.items[5].type = "ColumnSet"

\* C23: post_to_teams never raises: every call of it in a run, whatever the
\* delivery attempt did (2xx status, non-2xx status, connection error, any
\* other error of the transport), ends with the return of True or False.
C23_PostNeverRaises ==
    \A k \in 1..Len(events) :
        events[k].stage = "post" => events[k].result \in {"True", "False"}

\* An entry of the file with all five fields present and not empty.
PresentAndNonEmpty(entry) ==
    /\ required_keys \subseteq DOMAIN entry
    /\ \A key \in required_keys : entry[key] # <<>>

Loaded == \E k \in 1..Len(events) : events[k].stage = "loaded"

\* C24 as claimed: the loader accepts the file only if every record has all
\* five fields present and not empty.
C24_NonEmptyFields ==
    Loaded => \A i \in DOMAIN users_json.entries : PresentAndNonEmpty(users_json.entries[i])

\* C24: the loader accepts the file only if every record has all five fields
\* present (the values are not looked at); what it accepts it returns whole;
\* if a record at any position lacks a field the load is rejected as a whole,
\* the run ends there and no record, also none before the bad one, is
\* authenticated.
C24_AllFieldsPresent ==
    /\ Loaded =>
          /\ users_json.kind = "list"
          /\ \A i \in DOMAIN users_json.entries :
                required_keys \subseteq DOMAIN users_json.entries[i]
          /\ users = users_json.entries
    /\ (users_json.kind = "list" /\ SourceRejected) =>
          /\ ~Loaded
          /\ users = <<>>
          /\ UserEvents = <<>>
          /\ pc \in {"start", "load", "aborted"}

C24_Witness ==
    /\ pc = "aborted"
    /\ webhook_url # <<>>
    /\ users_json.kind = "list"
    /\ Len(users_json.entries) = 2
    /\ PresentAndNonEmpty(users_json.entries[1])
    /\ "client_id" \notin DOMAIN users_json.entries[2]
    /\ ~Loaded
    /\ UserEvents = <<>>

\* C25: the session handed to the fetch of a record is the one the
\* authentication of that record returned in the same iteration, never the
\* session of another record: every fetch is called with the session of its
\* own record, after that record's authentication succeeded, and while a
\* record is between its authentication and its resolution the session held
\* is its own.
C25_SessionScope ==
    /\ \A k \in 1..Len(events) :
          events[k].stage = "fetch" =>
              /\ events[k].text[1] = ToString(events[k].user)
              /\ \E j \in 1..(k - 1) :
                    /\ events[j].user = events[k].user
                    /\ events[j].stage = "authenticate"
                    /\ events[j].result = "ok"
    /\ pc \in {"fetch", "format", "post"} => spotify_client.owner = cur

C25_Witness ==
    /\ pc = "done"
    /\ Len(users) = 2
    /\ \E k \in 1..Len(events) :
          events[k].user = 1 /\ events[k].stage = "fetch" /\ events[k].text[1] = "1"
    /\ \E k \in 1..Len(events) :
          events[k].user = 2 /\ events[k].stage = "fetch" /\ events[k].text[1] = "2"

\* C26: the webhook URL is the --teams-webhook value when that is not empty,
\* whatever WEBHOOK_URL holds; otherwise the WEBHOOK_URL value when that is not
\* empty; when neither is set the resolution fails with "No webhook URL
\* provided ..." and no default is used.
C26_WebhookPriority ==
    pc # "start" =>
        IF TruthyOpt(teams_webhook) THEN webhook_url = teams_webhook[1]
        ELSE IF TruthyOpt(env_webhook) THEN webhook_url = env_webhook[1]
        ELSE /\ pc = "aborted"
             /\ webhook_url = <<>>
             /\ events = <<Event(0, "error", "raised", <<"Error: ">> \o MsgNoWebhook)>>

C26_Witness ==
    /\ pc = "load"
    /\ teams_webhook = Some(<<"https://cli.webhook.url">>)
    /\ env_webhook = Some(<<"https://env.webhook.url">>)
    /\ webhook_url = <<"https://cli.webhook.url">>

\* C27: authenticate_user fails with the MissingField text only when a required
\* field is absent from the record: a call on a record that has all five
\* fields, so also one that fails after the exchange was made, never fails
\* with it.
C27_MissingFieldOnlyWhenAbsent ==
    (apc = "returned" /\ auth_result.raised
        /\ required_keys \subseteq DOMAIN user_credentials) =>
        "MissingField" \notin Kinds(auth_result.exc.text)

\* C28: an error raised in the format stage, or raised by the post stage, is
\* contained at the record: the record is counted failed exactly once and
\* never successful, main does not end there, and once the run is done every
\* record after it has been processed.
C28_FormatPostErrorsContained ==
    /\ pc # "raised"
    /\ \A i \in 1..Len(users) :
          (Ended(i, "format", "raised") \/ Ended(i, "post", "raised")) =>
              /\ Calls(i, "failed") = 1
              /\ Calls(i, "success") = 0
              /\ failed_posts >= 1
              /\ cur = i => pc \in {"loop", "done"}
              /\ pc = "done" => \A j \in (i + 1)..Len(users) : WholePipeline(j)

C28_Witness ==
    /\ pc = "done"
    /\ Len(users) = 3
    /\ Ended(1, "format", "raised")
    /\ Ended(2, "post", "raised")
    /\ Ended(3, "success", "ok")
    /\ failed_posts = 2
    /\ successful_posts = 1

\* The fetch of record i returned an empty list.
FetchedEmpty(i) ==
    \E k \in 1..Len(events) :
        /\ events[k].user = i
        /\ events[k].stage = "fetch"
        /\ events[k].result = "ok"
        /\ events[k].text[2] = "0"

\* C29: a record whose authentication and fetch succeeded with an empty track
\* list is formatted (the "No recently played tracks found" card) and posted
\* exactly once; it is counted successful if that post returns True, and it is
\* counted failed only if the post returns False or raises.
C29_EmptyListStillPosted ==
    \A i \in 1..Len(users) :
        FetchedEmpty(i) =>
            /\ ~Ended(i, "format", "raised")
            /\ (cur = i /\ pc = "post") =>
                  message = <<TextBlock(<<"No recently played tracks found for ">>
                                            \o UsernameOf(users[i]),
                                        "Attention", "Medium")>>
            /\ Resolved(i) => Calls(i, "post") = 1
            /\ Ended(i, "post", "True") => Calls(i, "success") = 1 /\ Calls(i, "failed") = 0
            /\ Calls(i, "failed") > 0 =>
                  Ended(i, "post", "False") \/ Ended(i, "post", "raised")

C29_Witness ==
    /\ pc = "done"
    /\ Len(users) = 1
    /\ FetchedEmpty(1)
    /\ Calls(1, "post") = 1
    /\ Ended(1, "post", "True")
    /\ successful_posts = 1
    /\ failed_posts = 0

\* C30: a run whose webhook URL and records were accepted reaches the summary,
\* with every record begun once and resolved once (Success or Failed), none
\* left in a stage.
C30_Termination ==
    (pc = "loop") ~>
        (/\ pc = "done"
         /\ events[Len(events)].stage = "summary"
         /\ \A i \in 1..Len(users) :
               /\ Calls(i, "begin") = 1
               /\ Calls(i, "success") + Calls(i, "failed") = 1)

C30_Witness ==
    /\ pc = "done"
    /\ Len(users) = 2
    /\ events[Len(events)].stage = "summary"
    /\ Calls(1, "failed") = 1 /\ Calls(1, "begin") = 1
    /\ Calls(2, "success") = 1 /\ Calls(2, "begin") = 1

====
